---- MODULE Spec2Model ----
(***************************************************************************)
(* Code generator metadata service (app/service/gen.js): importTable,      *)
(* delTable and syncTable over the two metadata tables la_gen_table and    *)
(* la_gen_table_column, the column classifier initColumn, the naming       *)
(* helpers toClassName / toModuleName, the listing of importable tables    *)
(* (dbTables), and code rendering with previewCode and downloadCode.       *)
(*                                                                         *)
(* JavaScript values are tagged (number / string / undefined) so that      *)
(* the strict comparisons of the code (===) keep their meaning; database   *)
(* rows hold plain integers and strings, as the typed columns do.          *)
(* Wall-clock fields (createTime, updateTime) and the free-text comments   *)
(* are not part of the state.                                              *)
(***************************************************************************)
EXTENDS Integers, Sequences, FiniteSets, TLC

----------------------------------------------------------------------------
(* JavaScript values and objects *)

Undefined == <<"undefined">>
Num(n) == <<"number", n>>
Str(s) == <<"string", s>>

\* o.k : an absent property reads as undefined
Get(o, k) == IF k \in DOMAIN o THEN o[k] ELSE Undefined

\* o.k = v
Assign(o, k, v) == [x \in (DOMAIN o) \cup {k} |-> IF x = k THEN v ELSE o[x]]

\* an object without own enumerable properties
EmptyObject == [x \in {} |-> Undefined]

----------------------------------------------------------------------------
(* String primitives of the runtime *)

CharAt(s, i) == SubSeq(s, i, i)

\* s.indexOf(c, from): 1-based position of the first c at or after from, 0 when absent
IndexOf(s, c, from) ==
  LET hits == {i \in from..Len(s) : CharAt(s, i) = c}
  IN IF hits = {} THEN 0 ELSE CHOOSE i \in hits : \A j \in hits : i <= j

startsWith(s, p) == Len(p) <= Len(s) /\ SubSeq(s, 1, Len(p)) = p

endsWith(s, p) == Len(p) <= Len(s) /\ SubSeq(s, Len(s) - Len(p) + 1, Len(s)) = p

\* s.includes(c) for a one-character c
includes(s, c) == IndexOf(s, c, 1) > 0

\* 1-based position of the first occurrence of the string p in s, 0 when absent
Find(s, p) ==
  LET hits == {i \in 1..(Len(s) - Len(p) + 1) : SubSeq(s, i, i + Len(p) - 1) = p}
  IN IF hits = {} THEN 0 ELSE CHOOSE i \in hits : \A j \in hits : i <= j

\* s.replace(p, r) for a string p: the first occurrence only
replace(s, p, r) ==
  IF Find(s, p) = 0 THEN s
  ELSE SubSeq(s, 1, Find(s, p) - 1) \o r \o SubSeq(s, Find(s, p) + Len(p), Len(s))

RECURSIVE split(_, _)
\* s.split(sep) for a one-character separator
split(s, sep) ==
  LET i == IndexOf(s, sep, 1)
  IN IF i = 0 THEN <<s>>
     ELSE <<SubSeq(s, 1, i - 1)>> \o split(SubSeq(s, i + 1, Len(s)), sep)

RECURSIVE join(_)
\* words.join('')
join(words) == IF words = <<>> THEN "" ELSE Head(words) \o join(Tail(words))

LowerLetters == <<"a","b","c","d","e","f","g","h","i","j","k","l","m",
                  "n","o","p","q","r","s","t","u","v","w","x","y","z">>
UpperLetters == <<"A","B","C","D","E","F","G","H","I","J","K","L","M",
                  "N","O","P","Q","R","S","T","U","V","W","X","Y","Z">>

\* c.toUpperCase() for a string of at most one character
toUpperCase(c) ==
  IF \E i \in 1..26 : LowerLetters[i] = c
  THEN UpperLetters[CHOOSE i \in 1..26 : LowerLetters[i] = c]
  ELSE c

\* c.toLowerCase() for a string of at most one character
LowerChar(c) ==
  IF \E i \in 1..26 : UpperLetters[i] = c
  THEN LowerLetters[CHOOSE i \in 1..26 : UpperLetters[i] = c]
  ELSE c

RECURSIVE toLowerCase(_)
toLowerCase(s) ==
  IF s = "" THEN "" ELSE LowerChar(CharAt(s, 1)) \o toLowerCase(SubSeq(s, 2, Len(s)))

Digits == <<"0","1","2","3","4","5","6","7","8","9">>
IsDigit(c) == \E d \in 1..10 : Digits[d] = c
DigitVal(c) == (CHOOSE d \in 1..10 : Digits[d] = c) - 1

RECURSIVE DigitsPrefix(_, _)
\* value of the leading decimal digits of s, continuing from acc
DigitsPrefix(s, acc) ==
  IF s = "" \/ ~IsDigit(CharAt(s, 1)) THEN acc
  ELSE DigitsPrefix(SubSeq(s, 2, Len(s)), acc * 10 + DigitVal(CharAt(s, 1)))

\* parseInt(s, 10) on an unsigned string: NaN when s does not start with a digit
parseInt(s) ==
  IF s = "" \/ ~IsDigit(CharAt(s, 1)) THEN [nan |-> TRUE, val |-> 0]
  ELSE [nan |-> FALSE, val |-> DigitsPrefix(s, 0)]

\* util.contains(src, elem): src is an array here
contains(src, elem) == \E i \in 1..Len(src) : src[i] = elem

\* util.toCamelCase(s)
toCamelCase(s) ==
  LET words == split(s, "_")
      w2 == [i \in 1..Len(words) |->
               IF i >= 2
               THEN toUpperCase(SubSeq(words[i], 1, 1)) \o SubSeq(words[i], 2, Len(words[i]))
               ELSE words[i]]
  IN join(w2)

\* util.toPascalCase(str), for words that are not empty
toPascalCase(s) ==
  LET words == split(s, "_")
      w2 == [i \in 1..Len(words) |->
               toUpperCase(SubSeq(words[i], 1, 1)) \o SubSeq(words[i], 2, Len(words[i]))]
  IN join(w2)

----------------------------------------------------------------------------
(* Configuration (app/extend/config.js) *)

dbTablePrefix == "la_"
isRemoveTablePrefix == TRUE

typeString == "string"
typeFloat == "float64"
typeInt == "int"
typeDate == "core.TsTime"

\* genConstants: the key of the "required" marker is spelt qequire
genConstants ==
  [UTF8 |-> Str("utf-8"), tplCrud |-> Str("crud"), tplTree |-> Str("tree"),
   queryLike |-> Str("LIKE"), queryEq |-> Str("="), qequire |-> Num(1)]

columnTypeStr == <<"char", "varchar", "nvarchar", "varchar2">>
columnTypeText == <<"tinytext", "text", "mediumtext", "longtext">>
columnTypeTime == <<"datetime", "time", "date", "timestamp">>
columnTypeNumber == <<"tinyint", "smallint", "mediumint", "int", "integer",
                      "bit", "bigint", "float", "double", "decimal">>
columnTimeName == <<"create_time", "update_time", "delete_time", "start_time", "end_time">>
columnNameNotAdd == <<"id", "is_delete", "create_time", "update_time", "delete_time">>
columnNameNotEdit == <<"is_delete", "create_time", "update_time", "delete_time">>
columnNameNotList == <<"id", "intro", "content", "is_delete", "delete_time">>
columnNameNotQuery == <<"is_delete", "create_time", "update_time", "delete_time">>

htmlInput == "input"
htmlTextarea == "textarea"
htmlSelect == "select"
htmlRadio == "radio"
htmlDatetime == "datetime"
htmlImageUpload == "imageUpload"
htmlFileUpload == "fileUpload"
htmlEditor == "editor"

----------------------------------------------------------------------------
(* Naming helpers and type parsing (GenService) *)

\* GenService.toClassName(name)
toClassName(name) ==
  LET stripped == IF isRemoveTablePrefix /\ dbTablePrefix # "" /\ startsWith(name, dbTablePrefix)
                  THEN SubSeq(name, Len(dbTablePrefix) + 1, Len(name))
                  ELSE name
  IN toCamelCase(stripped)

\* GenService.toModuleName(name)
toModuleName(name) ==
  LET names == split(name, "_")
  IN names[Len(names)]

\* GenService.getDbType(columnType)
getDbType(columnType) ==
  LET index == IndexOf(columnType, "(", 1)
  IN IF index = 0 THEN columnType ELSE SubSeq(columnType, 1, index - 1)

\* GenService.getColumnLength(columnType)
getColumnLength(columnType) ==
  LET index == IndexOf(columnType, "(", 1)
      endIndex == IF index = 0 THEN 0 ELSE IndexOf(columnType, ")", index)
      length == parseInt(SubSeq(columnType, index + 1, endIndex - 1))
  IN IF index = 0 THEN 0
     ELSE IF endIndex = 0 THEN 0
     ELSE IF length.nan THEN 0
     ELSE length.val

----------------------------------------------------------------------------
(* Column classifier *)

\* initColumn, "根据列类型设置HTML类型和Java类型": widget and logical type by SQL type
SetByColumnType(col, columnType, columnLen) ==
  IF contains(columnTypeStr \o columnTypeText, columnType)
  THEN IF columnLen >= 500 \/ contains(columnTypeText, columnType)
       THEN Assign(col, "htmlType", Str(htmlTextarea))
       ELSE Assign(col, "htmlType", Str(htmlInput))
  ELSE IF contains(columnTypeTime, columnType)
  THEN Assign(Assign(col, "javaType", Str(typeDate)), "htmlType", Str(htmlDatetime))
  ELSE IF contains(columnTimeName, col.columnName[2])
  THEN Assign(Assign(col, "javaType", Str(typeDate)), "htmlType", Str(htmlDatetime))
  ELSE IF contains(columnTypeNumber, columnType)
  THEN IF includes(columnType, ",")
       THEN Assign(Assign(col, "htmlType", Str(htmlInput)), "javaType", Str(typeFloat))
       ELSE Assign(Assign(col, "htmlType", Str(htmlInput)), "javaType", Str(typeInt))
  ELSE col

\* initColumn, "特殊字段处理": a column that is not edited is not required
SetNotEditNotRequired(col) ==
  IF contains(columnNameNotEdit, col.columnName[2])
  THEN Assign(col, "isRequired", Num(0)) ELSE col

\* initColumn, "设置CRUD操作权限", the four flags in turn
SetIsInsert(col) ==
  IF ~contains(columnNameNotAdd, col.columnName[2])
  THEN Assign(col, "isInsert", Get(genConstants, "require")) ELSE col

SetIsEdit(col) ==
  IF ~contains(columnNameNotEdit, col.columnName[2])
  THEN Assign(Assign(col, "isEdit", Get(genConstants, "require")),
              "isRequired", Get(genConstants, "require"))
  ELSE col

\* SetIsList with the flag value and the key test the comment of the branch describes
SetIsList_listable(col) ==
  IF ~contains(columnNameNotList, col.columnName[2]) /\ Get(col, "isPk") = Str("0")
  THEN Assign(col, "isList", Num(1)) ELSE col

SetIsList(col) ==
  IF ~contains(columnNameNotList, col.columnName[2]) /\ Get(col, "isPk") = Num(0)
  THEN Assign(col, "isList", Get(genConstants, "require")) ELSE col

SetIsQuery(col) ==
  IF ~contains(columnNameNotQuery, col.columnName[2]) /\ Get(col, "isPk") = Num(0)
  THEN Assign(col, "isQuery", Get(genConstants, "require")) ELSE col

\* initColumn, "根据字段名设置查询类型": query operator by column name
SetQueryTypeByName(col, lowerColName) ==
  IF endsWith(lowerColName, "name") \/ contains(<<"title", "mobile">>, lowerColName)
  THEN Assign(col, "queryType", Get(genConstants, "queryLike")) ELSE col

\* initColumn, "根据字段名设置HTML控件类型": widget by column name
SetHtmlTypeByName(col, lowerColName) ==
  IF endsWith(lowerColName, "status") \/ contains(<<"is_show", "is_disable">>, lowerColName)
  THEN Assign(col, "htmlType", Str(htmlRadio))
  ELSE IF endsWith(lowerColName, "type") \/ endsWith(lowerColName, "sex")
  THEN Assign(col, "htmlType", Str(htmlSelect))
  ELSE IF endsWith(lowerColName, "image")
  THEN Assign(col, "htmlType", Str(htmlImageUpload))
  ELSE IF endsWith(lowerColName, "file")
  THEN Assign(col, "htmlType", Str(htmlFileUpload))
  ELSE IF endsWith(lowerColName, "content")
  THEN Assign(col, "htmlType", Str(htmlEditor))
  ELSE col

\* GenService.initColumn(tableId, column): the object the returned promise resolves to
initColumn(tableId, column) ==
  LET col == [tableId |-> Num(tableId),
              columnName |-> column.columnName,
              columnType |-> Str(getDbType(column.columnType[2])),
              columnLength |-> Num(getColumnLength(column.columnType[2])),
              javaField |-> column.columnName,
              javaType |-> Str(typeString),
              queryType |-> Get(genConstants, "queryEq"),
              sort |-> column.sort,
              isPk |-> column.isPk,
              isIncrement |-> column.isIncrement,
              isRequired |-> column.isRequired]
      flagged == SetIsQuery(SetIsList(SetIsEdit(SetIsInsert(SetNotEditNotRequired(
                   SetByColumnType(col, getDbType(column.columnType[2]),
                                   getColumnLength(column.columnType[2])))))))
  IN SetHtmlTypeByName(SetQueryTypeByName(flagged, toLowerCase(column.columnName[2])),
                       toLowerCase(column.columnName[2]))

\* GenService.initTable(table)
initTable(table) ==
  [tableName |-> table.tableName,
   entityName |-> toClassName(table.tableName),
   moduleName |-> toModuleName(table.tableName)]

----------------------------------------------------------------------------
(* Bounds and the live schema the runs start from *)

MaxTableId == 2   \* la_gen_table ids handed out in one run

\* information_schema.columns facts of one live column
LiveColumn(name, type, nullable, key, extra) ==
  [column_name |-> name, column_type |-> type, is_nullable |-> nullable,
   column_key |-> key, extra |-> extra]

\* table names of the catalog, in the order the catalog returns them
CatalogOrder == <<"demo_order", "la_demo_order", "la_gen_table", "la_gen_table_column",
                  "qrtz_triggers">>

\* information_schema.tables.table_comment of the live tables
TableComment(t) ==
  IF t = "demo_order" THEN "demo orders"
  ELSE IF t = "la_demo_order" THEN "orders"
  ELSE IF t = "la_gen_table" THEN "generator tables"
  ELSE IF t = "la_gen_table_column" THEN "generator columns"
  ELSE ""

\* the database as the running application has it: the business tables, the two tables
\* of the generator itself and a table of the job scheduler
CatalogSchema ==
  [t \in {"demo_order", "la_demo_order", "la_gen_table", "la_gen_table_column",
          "qrtz_triggers"} |->
     IF t = "la_demo_order"
     THEN <<LiveColumn("id", "int(11)", "NO", "PRI", "auto_increment"),
            LiveColumn("order_no", "varchar(32)", "NO", "", "")>>
     ELSE <<LiveColumn("id", "int(11)", "NO", "PRI", "auto_increment")>>]

InitialSchema ==
  [t \in {"demo_order", "la_demo_order"} |->
     IF t = "la_demo_order"
     THEN <<LiveColumn("id", "int(11)", "NO", "PRI", "auto_increment"),
            LiveColumn("order_no", "varchar(32)", "NO", "", "")>>
     ELSE <<LiveColumn("id", "int(11)", "NO", "PRI", "auto_increment")>>]

\* the live tables that are altered, and the columns ALTER TABLE ... ADD COLUMN may append
AlterableTables == {"la_demo_order"}
AddableColumns == {LiveColumn("remark", "text", "YES", "", "")}
\* the columns ALTER TABLE ... ADD COLUMN may bring back after they were dropped
ReaddableColumns == {LiveColumn("order_no", "varchar(32)", "NO", "", "")}

\* the lists of table names callers pass to importTable
ImportRequests == {{"la_demo_order"}, {"demo_order"}, {"la_demo_order", "demo_order"},
                   {"la_missing"}}

----------------------------------------------------------------------------
(* Persistence: la_gen_table and la_gen_table_column *)

IntAttrs == {"tableId", "columnLength", "sort", "isPk", "isIncrement",
             "isRequired", "isInsert", "isEdit", "isList", "isQuery"}
StrAttrs == {"columnName", "columnType", "javaField", "javaType",
             "queryType", "htmlType", "dictType"}
tableAttributes == {"id"} \cup IntAttrs \cup StrAttrs

\* value a column of la_gen_table_column takes when the written object leaves it undefined
ColumnDefault(attr) == IF attr \in IntAttrs THEN 0 ELSE ""

\* a JavaScript value as the typed database column stores it
ToDbValue(attr, v) ==
  IF attr \in IntAttrs \cup {"id"}
  THEN IF v[1] = "number" THEN v[2] ELSE parseInt(v[2]).val
  ELSE v[2]

\* the row GenTableColumn.create / save inserts for the object col under a fresh id
NewColumnRow(col, id) ==
  [a \in tableAttributes |->
     IF a = "id" THEN id
     ELSE IF Get(col, a) = Undefined THEN ColumnDefault(a)
     ELSE ToDbValue(a, col[a])]

\* the row GenTable.create inserts
NewTableRow(genTable, id) ==
  [id |-> id, tableName |-> genTable.tableName,
   entityName |-> genTable.entityName, moduleName |-> genTable.moduleName]

\* GenTableColumn.update(values, {where: {id}}): defined values of known attributes overwrite
UpdateColumns(columns, values, id) ==
  {IF r.id = id
   THEN [a \in tableAttributes |->
           IF a \in DOMAIN values /\ values[a] # Undefined
           THEN ToDbValue(a, values[a]) ELSE r[a]]
   ELSE r : r \in columns}

----------------------------------------------------------------------------
(* Catalog queries *)

\* table_name LIKE '<prefix>_%': the prefix, one more character, then anything
LikePrefix(name, prefix) ==
  /\ Len(name) >= Len(prefix) + 1
  /\ toLowerCase(SubSeq(name, 1, Len(prefix))) = prefix

RECURSIVE SelectTables(_, _)
\* the rows of information_schema.tables whose name is in keep, in catalog order
SelectTables(order, keep) ==
  IF order = <<>> THEN <<>>
  ELSE (IF Head(order) \in keep THEN <<[tableName |-> Head(order)]>> ELSE <<>>)
       \o SelectTables(Tail(order), keep)

\* GenService.getDbTablesQueryByNames(tableNames)
getDbTablesQueryByNames(schema, tableNames) ==
  SelectTables(CatalogOrder,
               {t \in DOMAIN schema : /\ ~LikePrefix(t, "qrtz")
                                      /\ ~LikePrefix(t, "gen")
                                      /\ t \in tableNames})

RECURSIVE SelectRows(_, _)
\* the rows of information_schema.tables whose name is in keep, in catalog order, as the
\* list query selects them
SelectRows(order, keep) ==
  IF order = <<>> THEN <<>>
  ELSE (IF Head(order) \in keep
        THEN <<[tableName |-> Head(order), tableComment |-> TableComment(Head(order))]>>
        ELSE <<>>)
       \o SelectRows(Tail(order), keep)

\* lower(column) like lower("%filter%"); an empty filter adds no condition
LikeContains(value, filter) ==
  filter = "" \/ Find(toLowerCase(value), toLowerCase(filter)) > 0

\* the rows both statements of getDbTablesQuery select from
DbTablesWhere(tables, schema, tableName, tableComment) ==
  SelectRows(CatalogOrder,
             {t \in DOMAIN schema : /\ ~LikePrefix(t, "qrtz")
                                    /\ ~LikePrefix(t, "gen")
                                    /\ t \notin {r.tableName : r \in tables}
                                    /\ LikeContains(t, tableName)
                                    /\ LikeContains(TableComment(t), tableComment)})

\* the rows matched, from OFFSET offset on, at most limit of them
LimitOffset(matched, limit, offset) ==
  SubSeq(matched, offset + 1,
         IF offset + limit < Len(matched) THEN offset + limit ELSE Len(matched))

\* GenService.getDbTablesQuery(tableName, tableComment, limit, offset)
getDbTablesQuery(tables, schema, tableName, tableComment, limit, offset) ==
  [total |-> Len(DbTablesWhere(tables, schema, tableName, tableComment)),
   data |-> LimitOffset(DbTablesWhere(tables, schema, tableName, tableComment),
                        limit, offset)]

\* GenService.dbTables(listReq); pageSize and pageNo are the digit strings of the query
dbTables(tables, schema, listReq) ==
  [pageNo |-> listReq.pageNo,
   pageSize |-> listReq.pageSize,
   count |-> getDbTablesQuery(tables, schema, listReq.tableName, listReq.tableComment,
                              parseInt(listReq.pageSize).val,
                              parseInt(listReq.pageSize).val
                                * (parseInt(listReq.pageNo).val - 1)).total,
   lists |-> getDbTablesQuery(tables, schema, listReq.tableName, listReq.tableComment,
                              parseInt(listReq.pageSize).val,
                              parseInt(listReq.pageSize).val
                                * (parseInt(listReq.pageNo).val - 1)).data]

\* GenService.getDbTableColumnsQueryByName(tableName)
getDbTableColumnsQueryByName(schema, tableName) ==
  IF tableName \notin DOMAIN schema THEN <<>>
  ELSE [i \in 1..Len(schema[tableName]) |->
          LET c == schema[tableName][i]
          IN [columnName |-> Str(c.column_name),
              isRequired |-> IF c.is_nullable = "NO" /\ c.column_key # "PRI"
                             THEN Str("1") ELSE Str("0"),
              isPk |-> IF c.column_key = "PRI" THEN Str("1") ELSE Str("0"),
              sort |-> Num(i),
              isIncrement |-> IF c.extra = "auto_increment" THEN Str("1") ELSE Str("0"),
              columnType |-> Str(c.column_type)]]

----------------------------------------------------------------------------
(* Transactions.  A transaction body works on a record                     *)
(*   [tables, columns, nextT, nextC, n, thrown, cause]                     *)
(* tables / columns: the rows as the transaction sees them; nextT / nextC: *)
(* the AUTO_INCREMENT counters; n: write statements issued so far; thrown: *)
(* an exception left the body.  failAt = k makes the k-th write statement  *)
(* of the call reject (0: none does).  A finished transaction also tells   *)
(* whether it undid row changes of its body (undone).                      *)

Begin(db) ==
  [tables |-> db.tables, columns |-> db.columns, nextT |-> db.nextT, nextC |-> db.nextC,
   n |-> 0, thrown |-> FALSE, cause |-> ""]

Throw(st, cause) == [st EXCEPT !.thrown = TRUE, !.cause = cause]

\* causes of an exception inside a transaction body
WriteRejected == "write rejected"
TypeError == "TypeError: col.save is not a function"

\* variant of transaction: what the body wrote stays when the body throws
transaction_commitOnThrow(before, after) ==
  [tables |-> after.tables, columns |-> after.columns,
   nextT |-> after.nextT, nextC |-> after.nextC,
   thrown |-> after.thrown, cause |-> after.cause,
   undone |-> (after.thrown /\ (after.tables # before.tables \/ after.columns # before.columns))]

\* model.transaction(async t => body): commit when body returns, roll back when it throws.
\* The ids of rolled-back inserts are handed out again: an id only has to be fresh.
transaction(before, after) ==
  IF after.thrown
  THEN [tables |-> before.tables, columns |-> before.columns,
        nextT |-> before.nextT, nextC |-> before.nextC,
        thrown |-> TRUE, cause |-> after.cause,
        undone |-> (after.tables # before.tables \/ after.columns # before.columns)]
  ELSE [tables |-> after.tables, columns |-> after.columns,
        nextT |-> after.nextT, nextC |-> after.nextC,
        thrown |-> FALSE, cause |-> "", undone |-> FALSE]

\* what a call hands to its caller once its transaction tx is over: it returns, or the
\* catch around the transaction throws the Error err
Outcome(tx, err) ==
  [db |-> [tables |-> tx.tables, columns |-> tx.columns,
           nextT |-> tx.nextT, nextC |-> tx.nextC],
   outcome |-> IF tx.thrown THEN err ELSE "ok", cause |-> tx.cause, undone |-> tx.undone]

\* a call throws the Error err before it has started a transaction
Failed(db, err, cause) == [db |-> db, outcome |-> err, cause |-> cause, undone |-> FALSE]

RECURSIVE ImportColumns(_, _, _, _, _)
\* importTable, inner loop: one GenTableColumn.create per live column
ImportColumns(st, genTableId, columns, j, failAt) ==
  IF j > Len(columns) THEN st
  ELSE IF st.n + 1 = failAt
  THEN Throw([st EXCEPT !.n = @ + 1], WriteRejected)
  ELSE ImportColumns([st EXCEPT !.n = @ + 1,
                                !.columns = @ \cup {NewColumnRow(initColumn(genTableId, columns[j]),
                                                                 st.nextC)},
                                !.nextC = @ + 1],
                     genTableId, columns, j + 1, failAt)

RECURSIVE ImportTables(_, _, _, _, _)
\* importTable, outer loop: on to the table after dbTbs[i] unless a create has thrown
NextTable(st, schema, dbTbs, i, failAt) ==
  IF st.thrown THEN st ELSE ImportTables(st, schema, dbTbs, i + 1, failAt)

\* importTable, outer loop: GenTable.create, then the columns of that table
ImportTables(st, schema, dbTbs, i, failAt) ==
  IF i > Len(dbTbs) THEN st
  ELSE IF st.n + 1 = failAt
  THEN Throw([st EXCEPT !.n = @ + 1], WriteRejected)
  ELSE NextTable(ImportColumns([st EXCEPT !.n = @ + 1,
                                          !.tables = @ \cup {NewTableRow(initTable(dbTbs[i]),
                                                                         st.nextT)},
                                          !.nextT = @ + 1],
                               st.nextT,
                               getDbTableColumnsQueryByName(schema, dbTbs[i].tableName),
                               1, failAt),
                 schema, dbTbs, i, failAt)

\* messages the service throws to its caller
ImportFindErr == "ImportTable Find tables err"
ImportNotExist == "table does not exist"      \* the message of gen.js line 111
ImportTxErr == "ImportTable Transaction err"
DelTxErr == "DelTable Transaction failed"
SyncTxErr == "SyncTable Transaction err"

\* variant of importTable without the check for an empty lookup result
importTable_noEmptyCheck(db, schema, dbTbs, failAt) ==
  Outcome(transaction(Begin(db), ImportTables(Begin(db), schema, dbTbs, 1, failAt)),
          ImportTxErr)

\* GenService.importTable(tableNames), from the by-names lookup dbTbs on
importTable(db, schema, dbTbs, failAt) ==
  IF Len(dbTbs) = 0
  THEN Failed(db, ImportNotExist, "")
  ELSE Outcome(transaction(Begin(db), ImportTables(Begin(db), schema, dbTbs, 1, failAt)),
               ImportTxErr)

\* number of write statements importTable issues when none fails
ImportWrites(schema, dbTbs) ==
  LET RECURSIVE W(_)
      W(i) == IF i > Len(dbTbs) THEN 0
              ELSE 1 + Len(getDbTableColumnsQueryByName(schema, dbTbs[i].tableName)) + W(i + 1)
  IN W(1)

\* delTable, first statement: GenTable.destroy({ where: { id: ids } })
DelTables(st, ids, failAt) ==
  IF failAt = 1 THEN Throw(st, WriteRejected)
  ELSE [st EXCEPT !.tables = {r \in @ : r.id \notin ids}]

\* variant of DelColumns: the column rows are selected by their own id, not by tableId
DelColumns_byRowId(st, ids, failAt) ==
  IF st.thrown THEN st
  ELSE IF failAt = 2 THEN Throw(st, WriteRejected)
  ELSE [st EXCEPT !.columns = {r \in @ : r.id \notin ids}]

\* delTable, second statement: GenTableColumn.destroy({ where: { tableId: ids } })
DelColumns(st, ids, failAt) ==
  IF st.thrown THEN st
  ELSE IF failAt = 2 THEN Throw(st, WriteRejected)
  ELSE [st EXCEPT !.columns = {r \in @ : r.tableId \notin ids}]

\* GenService.delTable(ids)
delTable(db, ids, failAt) ==
  Outcome(transaction(Begin(db), DelColumns(DelTables(Begin(db), ids, failAt), ids, failAt)),
          DelTxErr)

----------------------------------------------------------------------------
(* syncTable *)

RECURSIVE SortBySort(_)
\* findAll(... order: [['sort', 'ASC']]); rows of equal sort come in id order
SortBySort(rows) ==
  IF rows = {} THEN <<>>
  ELSE LET first == CHOOSE r \in rows :
                      \A q \in rows : r.sort < q.sort \/ (r.sort = q.sort /\ r.id <= q.id)
       IN <<first>> \o SortBySort(rows \ {first})

\* prevColMap[genTableCols[i].columnName] = genTableCols[i], a later row replacing an earlier one
PrevColMap(genTableCols) ==
  [nm \in {genTableCols[i].columnName : i \in 1..Len(genTableCols)} |->
     genTableCols[CHOOSE i \in 1..Len(genTableCols) :
                    /\ genTableCols[i].columnName = nm
                    /\ \A j \in 1..Len(genTableCols) :
                         genTableCols[j].columnName = nm => j <= i]]

\* variant of PromiseObject: the call is awaited, col is the built column and can be saved
PromiseObject_awaited(value) == Assign(value, "save", <<"function">>)

\* what the expression this.initColumn(id, column) evaluates to when the call is not
\* awaited: the pending promise, which has none of the properties of the value it resolves to
PromiseObject(value) == EmptyObject

IsFunction(v) == v = <<"function">>

\* the reads of syncTable before its transaction (gen.js lines 190-221)
SyncRead(tables, columns, schema, id) ==
  LET found == {r \in tables : r.id = id}
      genTable == IF found = {} THEN [id |-> 0, tableName |-> ""]
                  ELSE CHOOSE r \in found : TRUE
      genTableCols == SortBySort({c \in columns : c.tableId = id})
      live == getDbTableColumnsQueryByName(schema, genTable.tableName)
  IN [id |-> id,
      cause |-> IF found = {} THEN "no table record"
                ELSE IF Len(genTableCols) <= 0 THEN "no column records"
                ELSE IF Len(live) <= 0 THEN "no live columns"
                ELSE "",
      prevColMap |-> PrevColMap(genTableCols),
      columns |-> live]

\* variant of MergedColumn: the update also moves the column one place down
MergedColumn_resort(col, prevCol) ==
  Assign(Assign(col, "id", Num(prevCol.id)), "sort", Num(prevCol.sort + 1))

\* variant of MergedColumn: where the prior widget and requiredness are to be kept, the
\* defaults of a string column are written instead
MergedColumn_reclassify(col, prevCol) ==
  LET c1 == Assign(col, "id", Num(prevCol.id))
      c2 == IF Get(c1, "isList") = Num(0)
            THEN Assign(Assign(c1, "dictType", Str(prevCol.dictType)),
                        "queryType", Str(prevCol.queryType))
            ELSE c1
  IN IF (prevCol.isRequired = 1 /\ prevCol.isPk = 0 /\ prevCol.isInsert = 1)
        \/ prevCol.isEdit = 1
     THEN Assign(Assign(c2, "htmlType", Str(htmlInput)), "isRequired", Num(0))
     ELSE c2

\* the values passed to GenTableColumn.update for a column found in prevColMap
MergedColumn(col, prevCol) ==
  LET c1 == Assign(col, "id", Num(prevCol.id))
      c2 == IF Get(c1, "isList") = Num(0)
            THEN Assign(Assign(c1, "dictType", Str(prevCol.dictType)),
                        "queryType", Str(prevCol.queryType))
            ELSE c1
  IN IF (prevCol.isRequired = 1 /\ prevCol.isPk = 0 /\ prevCol.isInsert = 1)
        \/ prevCol.isEdit = 1
     THEN Assign(Assign(c2, "htmlType", Str(prevCol.htmlType)),
                 "isRequired", Num(prevCol.isRequired))
     ELSE c2

\* syncTable, one pass of the loop body (gen.js lines 227-252) for the live column called
\* name, col being the value of this.initColumn(id, columns[i])
SyncColumn(st, col, prevColMap, name, failAt) ==
  IF name \in DOMAIN prevColMap
  THEN IF st.n + 1 = failAt
       THEN Throw([st EXCEPT !.n = @ + 1], WriteRejected)
       ELSE [st EXCEPT !.n = @ + 1,
                       !.columns = UpdateColumns(@, MergedColumn(col, prevColMap[name]),
                                                 prevColMap[name].id)]
  ELSE IF ~IsFunction(Get(col, "save"))
  THEN Throw(st, TypeError)
  ELSE IF st.n + 1 = failAt
  THEN Throw([st EXCEPT !.n = @ + 1], WriteRejected)
  ELSE [st EXCEPT !.n = @ + 1,
                  !.columns = @ \cup {NewColumnRow(col, st.nextC)},
                  !.nextC = @ + 1]

RECURSIVE SyncColumns(_, _, _, _, _, _)
\* syncTable, the loop: on to the column after columns[i] unless a statement has thrown
NextColumn(st, id, prevColMap, columns, i, failAt) ==
  IF st.thrown THEN st ELSE SyncColumns(st, id, prevColMap, columns, i + 1, failAt)

\* syncTable, the loop over the live columns (gen.js lines 226-253)
SyncColumns(st, id, prevColMap, columns, i, failAt) ==
  IF i > Len(columns) THEN st
  ELSE NextColumn(SyncColumn(st, PromiseObject(initColumn(id, columns[i])), prevColMap,
                             columns[i].columnName[2], failAt),
                  id, prevColMap, columns, i, failAt)

\* variant of SyncDestroy: the statement deletes nothing
SyncDestroy_skip(st, prevColMap, columns, failAt) ==
  IF st.thrown THEN st
  ELSE IF st.n + 1 = failAt
  THEN Throw([st EXCEPT !.n = @ + 1], WriteRejected)
  ELSE [st EXCEPT !.n = @ + 1]

\* syncTable, the deletion of the stored columns the live table no longer has (lines 255-268),
\* reached unless the loop has thrown
SyncDestroy(st, prevColMap, columns, failAt) ==
  LET colNames == {columns[i].columnName[2] : i \in 1..Len(columns)}
      delColIds == {prevColMap[nm].id : nm \in {x \in DOMAIN prevColMap : x \notin colNames}}
  IN IF st.thrown THEN st
     ELSE IF st.n + 1 = failAt
     THEN Throw([st EXCEPT !.n = @ + 1], WriteRejected)
     ELSE [st EXCEPT !.n = @ + 1, !.columns = {r \in @ : r.id \notin delColIds}]

\* syncTable, the body of its transaction (gen.js lines 224-269)
SyncBody(st, ctx, failAt) ==
  SyncDestroy(SyncColumns(st, ctx.id, ctx.prevColMap, ctx.columns, 1, failAt),
              ctx.prevColMap, ctx.columns, failAt)

\* variant of syncTable: the statements are not tied to the transaction and stay when a
\* later one fails
syncTable_autocommit(db, ctx, failAt) ==
  IF ctx.cause # ""
  THEN Failed(db, SyncTxErr, ctx.cause)
  ELSE Outcome(transaction_commitOnThrow(Begin(db), SyncBody(Begin(db), ctx, failAt)),
               SyncTxErr)

\* GenService.syncTable(id), from the reads ctx on
syncTable(db, ctx, failAt) ==
  IF ctx.cause # ""
  THEN Failed(db, SyncTxErr, ctx.cause)
  ELSE Outcome(transaction(Begin(db), SyncBody(Begin(db), ctx, failAt)), SyncTxErr)

----------------------------------------------------------------------------
(* Code rendering, preview and download.  A call that may throw hands back *)
(*   [thrown, cause, value]                                                *)

Return(value) == [thrown |-> FALSE, cause |-> "", value |-> value]
Raise(cause) == [thrown |-> TRUE, cause |-> cause, value |-> Undefined]

\* value of an attribute of la_gen_table that importTable does not write
TableDefault(attr) == IF attr = "genTpl" THEN genConstants.tplCrud[2] ELSE ""

\* genTable.<attr> of a table record
TableAttr(genTable, attr) ==
  IF attr \in DOMAIN genTable THEN genTable[attr] ELSE TableDefault(attr)

\* GenService.getTablePriCol(columns): the first column whose isPk is the number 1
getTablePriCol(columns) ==
  IF \E i \in 1..Len(columns) : columns[i].isPk = Num(1)
  THEN columns[CHOOSE i \in 1..Len(columns) :
                 /\ columns[i].isPk = Num(1)
                 /\ \A j \in 1..(i - 1) : columns[j].isPk # Num(1)]
  ELSE Undefined

\* getSubTableInfo after GenTable.findOne has returned table: initColumn reads
\* column.columnType of what getTablePriCol returned
SubTableColumns(table, cols) ==
  IF getTablePriCol(cols) = Undefined
  THEN Raise("getSubTableInfo error: TypeError")
  ELSE Return([pkCol |-> initColumn(table.id, getTablePriCol(cols)), cols |-> cols])

\* GenService.getSubTableInfo(genTable)
getSubTableInfo(tables, schema, genTable) ==
  IF genTable.tableName = "" \/ TableAttr(genTable, "subTableFk") = ""
  THEN Return(Undefined)
  ELSE IF \A t \in tables : t.tableName # genTable.tableName
  THEN Raise("getSubTableInfo error: sub table record lost")
  ELSE SubTableColumns(CHOOSE t \in tables : t.tableName = genTable.tableName,
                       getDbTableColumnsQueryByName(schema, genTable.tableName))

\* templateUtil.getTemplatePaths(genTpl)
getTemplatePaths(genTpl) ==
  {"nodecode/model.js.tpl", "nodecode/controller.js.tpl", "nodecode/service.js.tpl",
   "nodecode/route.js.tpl", "vue/api.ts.tpl", "vue/edit.vue.tpl"}
    \cup (IF genTpl = genConstants.tplTree[2]
          THEN {"vue/index-tree.vue.tpl"} ELSE {"vue/index.vue.tpl"})

\* templateUtil.render(tplPath, vars): the text of one template for one table
render(tplPath, genTable) == <<tplPath, genTable.tableName>>

\* variant of RenderTemplates: a missing sub-table reads as one without columns
RenderTemplates_flatOk(genTable, data) ==
  IF data.thrown THEN data
  ELSE Return([tplPath \in getTemplatePaths(TableAttr(genTable, "genTpl")) |->
                 render(tplPath, genTable)])

\* renderCodeByTable once getSubTableInfo is over with data: data.pkCol is read
RenderTemplates(genTable, data) ==
  IF data.thrown THEN data
  ELSE IF data.value = Undefined
  THEN Raise("TypeError: Cannot read properties of undefined (reading 'pkCol')")
  ELSE Return([tplPath \in getTemplatePaths(TableAttr(genTable, "genTpl")) |->
                 render(tplPath, genTable)])

\* GenService.renderCodeByTable(genTable)
renderCodeByTable(tables, schema, genTable) ==
  RenderTemplates(genTable, getSubTableInfo(tables, schema, genTable))

\* previewCode, the result map: the keys of tplCodeMap without ".tpl"
PreviewMap(tplCodeMap) ==
  [k \in {replace(tplPath, ".tpl", "") : tplPath \in DOMAIN tplCodeMap} |->
     tplCodeMap[CHOOSE tplPath \in DOMAIN tplCodeMap : replace(tplPath, ".tpl", "") = k]]

\* previewCode from the rendering on
PreviewRendered(rendered) ==
  IF rendered.thrown THEN rendered ELSE Return(PreviewMap(rendered.value))

\* GenService.previewCode(id)
previewCode(tables, schema, id) ==
  IF \A t \in tables : t.id # id
  THEN Raise("record lost")
  ELSE PreviewRendered(renderCodeByTable(tables, schema, CHOOSE t \in tables : t.id = id))

\* getFilePaths: fmtMap
fmtMap(tplPath) ==
  IF tplPath = "nodecode/model.js.tpl" THEN "nodecode/%s/model.js"
  ELSE IF tplPath = "nodecode/controller.js.tpl" THEN "nodecode/%s/controller.js"
  ELSE IF tplPath = "nodecode/service.js.tpl" THEN "nodecode/%s/service.js"
  ELSE IF tplPath = "nodecode/route.js.tpl" THEN "nodecode/%s/route.js"
  ELSE IF tplPath = "vue/api.ts.tpl" THEN "vue/%s/api.ts"
  ELSE IF tplPath = "vue/edit.vue.tpl" THEN "vue/%s/edit.vue"
  ELSE IF tplPath = "vue/index.vue.tpl" THEN "vue/%s/index.vue"
  ELSE "vue/%s/index-tree.vue"

\* GenService.getFilePaths(tplCodeMap, moduleName)
getFilePaths(tplCodeMap, moduleName) ==
  [file \in {replace(fmtMap(tplPath), "%s", moduleName) : tplPath \in DOMAIN tplCodeMap} |->
     tplCodeMap[CHOOSE tplPath \in DOMAIN tplCodeMap :
                  replace(fmtMap(tplPath), "%s", moduleName) = file]]

\* The file at zipPath: the entries of the archive, and for the properties who wrote it
\* (by) and whether the call that wrote it has failed since (abandoned).
NoFile == [by |-> "", files |-> [file \in {} |-> <<>>], abandoned |-> FALSE]

\* GenService.genZip(zipPath, tplCodeMap, moduleName): a new write stream on zipPath
\* replaces what the file held
genZip(tplCodeMap, moduleName, caller) ==
  [by |-> caller, files |-> getFilePaths(tplCodeMap, moduleName), abandoned |-> FALSE]

\* genZipCode from the rendering of genTable on
ZipRendered(zip, genTable, rendered, caller) ==
  IF rendered.thrown
  THEN [thrown |-> TRUE, cause |-> "genZipCode error: " \o rendered.cause, zip |-> zip]
  ELSE [thrown |-> FALSE, cause |-> "",
        zip |-> genZip(rendered.value, genTable.moduleName, caller)]

\* GenService.genZipCode(zipPath, tableName): the table record of that name with the
\* highest id
genZipCode(tables, schema, zip, tableName, caller) ==
  IF \A t \in tables : t.tableName # tableName
  THEN [thrown |-> TRUE, cause |-> "genZipCode error: record lost", zip |-> zip]
  ELSE ZipRendered(zip,
                   CHOOSE t \in tables :
                     /\ t.tableName = tableName
                     /\ \A u \in tables : u.tableName = tableName => u.id <= t.id,
                   renderCodeByTable(tables, schema,
                     CHOOSE t \in tables :
                       /\ t.tableName = tableName
                       /\ \A u \in tables : u.tableName = tableName => u.id <= t.id),
                   caller)

\* A download request of one caller: the tables asked for, the index of the table
\* downloadCode packages next, whether the call has written zipPath, and the response.
\* For the properties, after: the callers whose request had failed when this one came in.
Idle == [pc |-> "idle", tables |-> <<>>, next |-> 1, wrote |-> FALSE, after |-> {},
         response |-> [status |-> 0, body |-> ""]]

\* GenController.downloadCode, entry: tables.split(',')
Requested(tablesList, failed) ==
  [pc |-> "packaging", tables |-> tablesList, next |-> 1, wrote |-> FALSE,
   after |-> failed, response |-> [status |-> 0, body |-> ""]]

\* the catch of GenController.downloadCode answers 500; what the call wrote to zipPath
\* stays there
DownloadFailed(zip, req, caller) ==
  [zip |-> IF req.wrote /\ zip.by = caller THEN [zip EXCEPT !.abandoned = TRUE] ELSE zip,
   req |-> [req EXCEPT !.pc = "answered",
                       !.response = [status |-> 500, body |-> "Internal Server Error"]]]

\* one genZipCode of the loop of downloadCode is over with z
DownloadPackaged(zip, req, caller, z) ==
  IF z.thrown THEN DownloadFailed(zip, req, caller)
  ELSE [zip |-> z.zip, req |-> [req EXCEPT !.next = @ + 1, !.wrote = TRUE]]

\* The request of caller goes on to its next await: downloadCode packages the next
\* table, or, all tables packaged, the controller streams the file at zipPath.
downloadStep(tables, schema, zip, req, caller) ==
  IF req.next <= Len(req.tables)
  THEN DownloadPackaged(zip, req, caller,
                        genZipCode(tables, schema, zip, req.tables[req.next], caller))
  ELSE [zip |-> zip,
        req |-> [req EXCEPT !.pc = "answered",
                            !.response = [status |-> 200, body |-> zip]]]

----------------------------------------------------------------------------
(* State *)

VARIABLES
  gen_table,            \* rows of la_gen_table
  gen_table_column,     \* rows of la_gen_table_column
  nextTableId,          \* AUTO_INCREMENT of la_gen_table
  nextColumnId,         \* AUTO_INCREMENT of la_gen_table_column
  information_schema,   \* the live schema: table name -> columns in ordinal order
  syncing,              \* what a syncTable call that has not reached its transaction has read
  last,                 \* the call that returned last, if nothing else happened since
  zipFile,              \* the file app/public/downloads/file.zip
  downloads             \* the download request of each caller

vars == <<gen_table, gen_table_column, nextTableId, nextColumnId,
          information_schema, syncing, last, zipFile, downloads>>

\* the callers of GET /api/gen/downloadCode
Callers == {"a", "b"}

Db == [tables |-> gen_table, columns |-> gen_table_column,
       nextT |-> nextTableId, nextC |-> nextColumnId]

\* op returned r: its outcome, the cause of a failure, and what the call did to the stored
\* rows: "undone" (its transaction took row changes back), "changed", or "none"
Returned(op, r) ==
  [op |-> op, outcome |-> r.outcome, cause |-> r.cause,
   effect |-> IF r.undone THEN "undone"
              ELSE IF r.db.tables # gen_table \/ r.db.columns # gen_table_column
              THEN "changed" ELSE "none"]

NoCall == [op |-> "none", outcome |-> "ok", cause |-> "", effect |-> "none"]

\* no syncTable call is between its reads and its transaction
NoSync == [id |-> 0]

Store(db) ==
  /\ gen_table' = db.tables
  /\ gen_table_column' = db.columns
  /\ nextTableId' = db.nextT
  /\ nextColumnId' = db.nextC

\* the call op is over with the result r
Finish(op, r) ==
  /\ Store(r.db)
  /\ last' = Returned(op, r)
  /\ UNCHANGED <<zipFile, downloads>>

Init ==
  /\ gen_table = {}
  /\ gen_table_column = {}
  /\ nextTableId = 1
  /\ nextColumnId = 1
  /\ information_schema = InitialSchema
  /\ syncing = NoSync
  /\ last = NoCall
  /\ zipFile = NoFile
  /\ downloads = [caller \in Callers |-> Idle]

----------------------------------------------------------------------------
(* Calls of the service, each run from entry to return without interleaving *)

\* importTable once the by-names lookup has returned dbTbs, or has rejected (catalogErr)
ImportFrom(dbTbs, catalogErr, failAt) ==
  /\ catalogErr => failAt = 0
  /\ nextTableId + Len(dbTbs) - 1 <= MaxTableId
  /\ failAt <= ImportWrites(information_schema, dbTbs)
  /\ Finish("importTable",
            IF catalogErr THEN Failed(Db, ImportFindErr, "")
            ELSE importTable(Db, information_schema, dbTbs, failAt))
  /\ UNCHANGED <<information_schema, syncing>>

\* importTable(tableNames)
ImportTable(tableNames, catalogErr, failAt) ==
  ImportFrom(getDbTablesQueryByNames(information_schema, tableNames), catalogErr, failAt)

\* delTable(ids)
DelTable(ids, failAt) ==
  /\ Finish("delTable", delTable(Db, ids, failAt))
  /\ UNCHANGED <<information_schema, syncing>>

\* syncTable once its reads have returned ctx
SyncFrom(ctx, failAt) ==
  /\ ctx.cause # "" => failAt = 0
  /\ failAt <= Len(ctx.columns) + 1
  /\ Finish("syncTable", syncTable(Db, ctx, failAt))
  /\ UNCHANGED information_schema

\* syncTable(id)
SyncTable(id, failAt) ==
  /\ SyncFrom(SyncRead(gen_table, gen_table_column, information_schema, id), failAt)
  /\ UNCHANGED syncing

----------------------------------------------------------------------------
(* syncTable in two steps, other calls running between its reads and its   *)
(* transaction                                                             *)

\* the reads of a syncTable call have returned ctx: the call goes on to its transaction,
\* or returns at once when a read has thrown
SyncHold(ctx) ==
  /\ syncing = NoSync
  /\ IF ctx.cause # ""
     THEN /\ last' = Returned("syncTable", syncTable(Db, ctx, 0))
          /\ UNCHANGED syncing
     ELSE /\ syncing' = ctx
          /\ last' = NoCall
  /\ UNCHANGED <<gen_table, gen_table_column, nextTableId, nextColumnId,
                 information_schema, zipFile, downloads>>

\* syncTable(id) up to the start of its transaction
SyncBegin(id) ==
  SyncHold(SyncRead(gen_table, gen_table_column, information_schema, id))

\* the transaction of the syncTable call in progress, on the rows as they are now
SyncCommit(failAt) ==
  /\ syncing # NoSync
  /\ SyncFrom(syncing, failAt)
  /\ syncing' = NoSync

----------------------------------------------------------------------------
(* Environment: the live database changes, an administrator edits a record *)

\* ALTER TABLE t ADD COLUMN c (appended last)
AlterAddColumn(t, c) ==
  /\ t \in DOMAIN information_schema
  /\ \A i \in 1..Len(information_schema[t]) :
       information_schema[t][i].column_name # c.column_name
  /\ information_schema' = [information_schema EXCEPT ![t] = Append(@, c)]
  /\ last' = NoCall
  /\ UNCHANGED <<gen_table, gen_table_column, nextTableId, nextColumnId, syncing,
                 zipFile, downloads>>

\* ALTER TABLE t DROP COLUMN <the i-th column>; the later columns move up
AlterDropColumn(t, i) ==
  /\ t \in DOMAIN information_schema
  /\ i \in 1..Len(information_schema[t])
  /\ information_schema[t][i].column_key # "PRI"
  /\ information_schema' =
       [information_schema EXCEPT ![t] =
          SubSeq(@, 1, i - 1) \o SubSeq(@, i + 1, Len(@))]
  /\ last' = NoCall
  /\ UNCHANGED <<gen_table, gen_table_column, nextTableId, nextColumnId, syncing,
                 zipFile, downloads>>

\* the columns ALTER TABLE ... MODIFY COLUMN redeclares, and the types it gives them
ModifiableColumns == {"order_no"}
ModifiedTypes == {"int(11)", "varchar(64)"}

\* ALTER TABLE t MODIFY COLUMN <the i-th column> type
AlterModifyColumn(t, i, type) ==
  /\ t \in DOMAIN information_schema
  /\ i \in 1..Len(information_schema[t])
  /\ information_schema[t][i].column_name \in ModifiableColumns
  /\ information_schema[t][i].column_type # type
  /\ information_schema' = [information_schema EXCEPT ![t][i].column_type = type]
  /\ last' = NoCall
  /\ UNCHANGED <<gen_table, gen_table_column, nextTableId, nextColumnId, syncing,
                 zipFile, downloads>>

\* the columns whose records an administrator edits, and the values put into them
EditableColumns == {"order_no"}
EditChoices ==
  {[htmlType |-> "select", isEdit |-> 1, dictType |-> "order_status", queryType |-> "LIKE"],
   [htmlType |-> "select", isRequired |-> 1, isInsert |-> 1]}

\* an administrator edits the column record columnId
AdminEdit(columnId, choice) ==
  /\ \E r \in gen_table_column : r.id = columnId /\ r.columnName \in EditableColumns
  /\ gen_table_column' =
       {IF r.id = columnId
        THEN [a \in tableAttributes |-> IF a \in DOMAIN choice THEN choice[a] ELSE r[a]]
        ELSE r : r \in gen_table_column}
  /\ gen_table_column' # gen_table_column
  /\ last' = NoCall
  /\ UNCHANGED <<gen_table, nextTableId, nextColumnId, information_schema, syncing,
                 zipFile, downloads>>

\* an administrator removes the column records of table id by hand
AdminRemoveColumns(id) ==
  /\ \E c \in gen_table_column : c.tableId = id
  /\ gen_table_column' = {c \in gen_table_column : c.tableId # id}
  /\ last' = NoCall
  /\ UNCHANGED <<gen_table, nextTableId, nextColumnId, information_schema, syncing,
                 zipFile, downloads>>

Environment ==
  \/ \E t \in AlterableTables, c \in AddableColumns : AlterAddColumn(t, c)
  \/ \E t \in AlterableTables, i \in 1..3 : AlterDropColumn(t, i)
  \/ \E r \in gen_table_column, choice \in EditChoices : AdminEdit(r.id, choice)

Next ==
  \/ \E tableNames \in ImportRequests, catalogErr \in BOOLEAN, failAt \in 0..6 :
       ImportTable(tableNames, catalogErr, failAt)
  \/ \E ids \in SUBSET (1..MaxTableId), failAt \in 0..2 : DelTable(ids, failAt)
  \/ \E id \in 1..MaxTableId, failAt \in 0..4 : SyncTable(id, failAt)
  \/ Environment

Spec == Init /\ [][Next]_vars

\* calls that overlap one syncTable call
NextConc ==
  \/ \E id \in 1..MaxTableId : SyncBegin(id)
  \/ \E failAt \in 0..4 : SyncCommit(failAt)
  \/ \E tableNames \in ImportRequests : ImportTable(tableNames, FALSE, 0)
  \/ \E ids \in SUBSET (1..MaxTableId) : DelTable(ids, 0)
  \/ Environment

SpecConc == Init /\ [][NextConc]_vars

\* imports and syncs of tables whose columns are dropped, added and added back, or
\* whose column records were removed by hand
NextAlter ==
  \/ \E tableNames \in ImportRequests : ImportTable(tableNames, FALSE, 0)
  \/ \E id \in 1..MaxTableId : SyncTable(id, 0)
  \/ \E t \in AlterableTables, c \in AddableColumns \cup ReaddableColumns :
       AlterAddColumn(t, c)
  \/ \E t \in AlterableTables, i \in 1..3 : AlterDropColumn(t, i)
  \/ \E t \in AlterableTables, i \in 1..3, type \in ModifiedTypes :
       AlterModifyColumn(t, i, type)
  \/ \E id \in 1..MaxTableId : AdminRemoveColumns(id)

SpecAlter == Init /\ [][NextAlter]_vars

\* the list requests of GET /api/gen/db: page sizes, page numbers and the two filters
PageSizes == {"2", "5"}
PageNos == {"1", "2", "3"}
NameFilters == {"", "order", "GEN"}
CommentFilters == {"", "order"}
ListRequests ==
  [pageNo : PageNos, pageSize : PageSizes, tableName : NameFilters,
   tableComment : CommentFilters]

\* dbTables(listReq) returns data
DbTables(listReq) ==
  /\ last' = [op |-> "dbTables", outcome |-> "ok", cause |-> "", effect |-> "none",
              request |-> listReq,
              data |-> dbTables(gen_table, information_schema, listReq)]
  /\ UNCHANGED <<gen_table, gen_table_column, nextTableId, nextColumnId,
                 information_schema, syncing, zipFile, downloads>>

\* nothing is imported yet; the catalog holds all tables of the application's database
InitCatalog ==
  /\ gen_table = {}
  /\ gen_table_column = {}
  /\ nextTableId = 1
  /\ nextColumnId = 1
  /\ information_schema = CatalogSchema
  /\ syncing = NoSync
  /\ last = NoCall
  /\ zipFile = NoFile
  /\ downloads = [caller \in Callers |-> Idle]

\* the importable tables are listed while tables are imported and deleted
NextCatalog ==
  \/ \E listReq \in ListRequests : DbTables(listReq)
  \/ \E tableNames \in ImportRequests : ImportTable(tableNames, FALSE, 0)
  \/ \E ids \in SUBSET (1..MaxTableId) : DelTable(ids, 0)

SpecCatalog == InitCatalog /\ [][NextCatalog]_vars

\* an administrator turns the table record id into a tree table with a sub-table
AdminSetTree(id) ==
  /\ \E t \in gen_table : t.id = id /\ TableAttr(t, "subTableFk") = ""
  /\ gen_table' =
       {IF t.id = id
        THEN [a \in DOMAIN t \cup {"genTpl", "subTableName", "subTableFk"} |->
                IF a = "genTpl" THEN genConstants.tplTree[2]
                ELSE IF a = "subTableName" THEN "demo_order"
                ELSE IF a = "subTableFk" THEN "id"
                ELSE t[a]]
        ELSE t : t \in gen_table}
  /\ last' = NoCall
  /\ UNCHANGED <<gen_table_column, nextTableId, nextColumnId, information_schema,
                 syncing, zipFile, downloads>>

\* previewCode(id) is over with r
Previewed(r) ==
  /\ last' = [op |-> "previewCode", outcome |-> IF r.thrown THEN r.cause ELSE "ok",
              cause |-> r.cause, effect |-> "none", data |-> r.value]
  /\ UNCHANGED <<gen_table, gen_table_column, nextTableId, nextColumnId,
                 information_schema, syncing, zipFile, downloads>>

\* previewCode(id)
PreviewCode(id) == Previewed(previewCode(gen_table, information_schema, id))

\* the tables parameter of the download requests
DownloadQueries == {"la_demo_order", "demo_order", "la_demo_order,demo_order",
                    "la_demo_order,la_missing"}

\* GET /api/gen/downloadCode?tables=...: a caller without a request under way sends one
DownloadBegin(caller, tables) ==
  /\ downloads[caller].pc # "packaging"
  /\ downloads' = [downloads EXCEPT ![caller] =
                     Requested(split(tables, ","),
                               {c \in Callers \ {caller} :
                                  /\ downloads[c].pc = "answered"
                                  /\ downloads[c].response.status = 500})]
  /\ last' = NoCall
  /\ UNCHANGED <<gen_table, gen_table_column, nextTableId, nextColumnId,
                 information_schema, syncing, zipFile>>

\* the request of caller has gone on by one step, to r
DownloadStore(caller, r) ==
  /\ zipFile' = r.zip
  /\ downloads' = [downloads EXCEPT ![caller] = r.req]
  /\ last' = NoCall
  /\ UNCHANGED <<gen_table, gen_table_column, nextTableId, nextColumnId,
                 information_schema, syncing>>

\* the request of caller runs up to its next await
DownloadStep(caller) ==
  /\ downloads[caller].pc = "packaging"
  /\ DownloadStore(caller, downloadStep(gen_table, information_schema, zipFile,
                                        downloads[caller], caller))

\* tables are imported and turned into tree tables, code is previewed, and the callers
\* download code, their requests overlapping
NextDownload ==
  \/ \E tableNames \in ImportRequests : ImportTable(tableNames, FALSE, 0)
  \/ \E id \in 1..MaxTableId : AdminSetTree(id)
  \/ \E id \in 1..MaxTableId : PreviewCode(id)
  \/ \E caller \in Callers, tables \in DownloadQueries : DownloadBegin(caller, tables)
  \/ \E caller \in Callers : DownloadStep(caller)

SpecDownload == Init /\ [][NextDownload]_vars

\* the column names and declared SQL types the classifier is run on
ClassifiedNames == {"create_time", "update_time", "delete_time", "start_time", "title",
                    "user_name", "order_status", "pay_type", "content", "remark",
                    "order_no", "sub_title", "mobile", "user_mobile"}
ClassifiedTypes == {"varchar(32)", "varchar(499)", "varchar(500)", "varchar(1000)",
                    "char(1)", "text", "int(11)", "decimal(10,2)", "datetime"}

\* the live table la_demo_order with a primary key and the one column c
SchemaWith(c) == [t \in {"la_demo_order"} |->
                    <<LiveColumn("id", "int(11)", "NO", "PRI", "auto_increment"), c>>]

\* nothing is imported yet, and la_demo_order has one column of any name and type
InitClassify ==
  /\ gen_table = {}
  /\ gen_table_column = {}
  /\ nextTableId = 1
  /\ nextColumnId = 1
  /\ information_schema \in {SchemaWith(LiveColumn(nm, ty, nullable, "", "")) :
                               nm \in ClassifiedNames, ty \in ClassifiedTypes,
                               nullable \in {"YES", "NO"}}
  /\ syncing = NoSync
  /\ last = NoCall
  /\ zipFile = NoFile
  /\ downloads = [caller \in Callers |-> Idle]

\* the table is imported (initColumn classifies its columns) and deleted again
NextClassify ==
  \/ ImportTable({"la_demo_order"}, FALSE, 0)
  \/ \E ids \in SUBSET (1..MaxTableId) : DelTable(ids, 0)

SpecClassify == InitClassify /\ [][NextClassify]_vars

----------------------------------------------------------------------------
(* Properties *)

\* the column records of table id
ColumnsOf(columns, id) == {c \in columns : c.tableId = id}

\* the column names stored for table id
StoredNames(columns, id) == {c.columnName : c \in ColumnsOf(columns, id)}

\* the names of the live columns of the table that the table record id stands for
LiveNames(tables, schema, id) ==
  UNION {{schema[t.tableName][i].column_name : i \in 1..Len(schema[t.tableName])} :
           t \in {r \in tables : r.id = id /\ r.tableName \in DOMAIN schema}}

\* table id is imported: it has a table record and column records
Imported(id) ==
  /\ \E t \in gen_table : t.id = id
  /\ ColumnsOf(gen_table_column, id) # {}

\* the live columns of table id that have no column record
LiveOnly(id) ==
  LiveNames(gen_table, information_schema, id) \ StoredNames(gen_table_column, id)

\* one complete syncTable(id) on the rows db
SyncOnce(db, schema, id) ==
  syncTable(db, SyncRead(db.tables, db.columns, schema, id), 0)

\* C1: importTable is all-or-nothing: a call that fails leaves the table records and
\* the column records exactly as they were before the call.
C1_ImportAllOrNothing ==
  [][(last'.op = "importTable" /\ last'.outcome # "ok")
       => (gen_table' = gen_table /\ gen_table_column' = gen_table_column)]_vars

\* an importTable call failed after it had created rows
C1_Witness ==
  /\ last.op = "importTable"
  /\ last.outcome = ImportTxErr
  /\ last.effect = "undone"

\* C2: syncTable is all-or-nothing: a call in which an update or the delete fails
\* leaves the column records exactly as they were before its transaction.
C2_SyncAllOrNothing ==
  [][(last'.op = "syncTable" /\ last'.outcome # "ok")
       => gen_table_column' = gen_table_column]_vars

\* a syncTable call failed after one of its updates had changed a column record
C2_Witness ==
  /\ last.op = "syncTable"
  /\ last.outcome = SyncTxErr
  /\ last.cause = WriteRejected
  /\ last.effect = "undone"

\* C3: a successful delTable(ids) removes exactly the table records whose id is in ids
\* and exactly the column records whose tableId is in ids; all other records stay as
\* they were.
C3_DelRemovesExactly ==
  [][\A ids \in SUBSET (1..MaxTableId) :
       (DelTable(ids, 0) /\ last'.outcome = "ok")
         => /\ gen_table' = {t \in gen_table : t.id \notin ids}
            /\ gen_table_column' = {c \in gen_table_column : c.tableId \notin ids}]_vars

\* a delTable call removed records and left others in place
C3_Witness ==
  /\ last.op = "delTable"
  /\ last.outcome = "ok"
  /\ last.effect = "changed"
  /\ gen_table # {}
  /\ gen_table_column # {}

\* C4: with the live schema unchanged, a second syncTable(id) right after a successful
\* one leaves the column records that the first one left.
C4_SyncIdempotent ==
  \A id \in 1..MaxTableId :
    LET first == SyncOnce(Db, information_schema, id)
        second == SyncOnce(first.db, information_schema, id)
    IN first.outcome = "ok" => second.db.columns = first.db.columns

\* a syncTable call has just removed a column record, and syncing that table again succeeds
C4_Witness ==
  /\ last.op = "syncTable"
  /\ last.outcome = "ok"
  /\ last.effect = "changed"
  /\ \E id \in 1..MaxTableId : SyncOnce(Db, information_schema, id).outcome = "ok"

\* the prior record p is one whose widget and requiredness syncTable is to keep
Carried(p) ==
  (p.isRequired = 1 /\ p.isPk = 0 /\ p.isInsert = 1) \/ p.isEdit = 1

\* C5: after a successful syncTable, every column record that was editable, or required
\* and not primary key and insertable, and whose column is still in the live table, has
\* the htmlType and isRequired it had before the call.
C5_SyncKeepsWidget ==
  [][(last'.op = "syncTable" /\ last'.outcome = "ok")
       => \A p \in gen_table_column :
            (Carried(p) /\ p.columnName \in LiveNames(gen_table, information_schema, p.tableId))
              => \E c \in gen_table_column' :
                   /\ c.id = p.id
                   /\ c.htmlType = p.htmlType
                   /\ c.isRequired = p.isRequired]_vars

\* the only imported table was synced with a hand-set select widget on an editable column
\* that is still live
C5_Witness ==
  /\ last.op = "syncTable"
  /\ last.outcome = "ok"
  /\ Cardinality(gen_table) = 1
  /\ \E c \in gen_table_column :
       /\ c.isEdit = 1
       /\ c.htmlType = htmlSelect
       /\ c.columnName \in LiveNames(gen_table, information_schema, c.tableId)

\* C6: when the live table of an imported table has a column without a column record,
\* syncTable(id) succeeds and adds exactly one column record of that name, placed after
\* every column record the table had before the call.
C6_SyncAddsLiveOnlyColumn ==
  [][\A id \in 1..MaxTableId :
       (SyncTable(id, 0) /\ Imported(id) /\ LiveOnly(id) # {})
         => /\ last'.outcome = "ok"
            /\ \A nm \in LiveOnly(id) :
                 \E c \in ColumnsOf(gen_table_column', id) :
                   /\ c.columnName = nm
                   /\ \A d \in ColumnsOf(gen_table_column', id) : d.columnName = nm => d = c
                   /\ \A p \in ColumnsOf(gen_table_column, id) : c.sort > p.sort]_vars

\* C7: after a successful syncTable(id) the column names stored for the table are the
\* names of its live columns: records of dropped columns are gone, records of live
\* columns are still there.
C7_StoredNamesAreLiveNames ==
  [][\A id \in 1..MaxTableId :
       (SyncTable(id, 0) /\ last'.outcome = "ok")
         => /\ StoredNames(gen_table_column', id)
                 = LiveNames(gen_table, information_schema, id)
            /\ \A p \in ColumnsOf(gen_table_column, id) :
                 p.columnName \in LiveNames(gen_table, information_schema, id)
                   => \E c \in gen_table_column' : c.id = p.id]_vars

\* a syncTable call removed the record of a dropped column of the only imported table
C7_Witness ==
  /\ last.op = "syncTable"
  /\ last.outcome = "ok"
  /\ last.effect = "changed"
  /\ \E t \in gen_table :
       /\ gen_table = {t}
       /\ StoredNames(gen_table_column, t.id) = LiveNames(gen_table, information_schema, t.id)

\* the table name without the configured prefix
PrefixStripped(name) ==
  IF startsWith(name, dbTablePrefix)
  THEN SubSeq(name, Len(dbTablePrefix) + 1, Len(name)) ELSE name

\* C8: every table record has as entityName the PascalCase of its table name without the
\* configured prefix (demo_order gives DemoOrder), and as moduleName the last
\* underscore-delimited segment of its table name.
C8_EntityNameIsPascalCase ==
  \A t \in gen_table :
    /\ t.entityName = toPascalCase(PrefixStripped(t.tableName))
    /\ t.moduleName = split(t.tableName, "_")[Len(split(t.tableName, "_"))]

\* C9: in every state reached by importTable, syncTable and delTable calls, overlapping
\* or not, every column record belongs to an existing table record.
C9_NoOrphanColumns ==
  \A c \in gen_table_column : \E t \in gen_table : t.id = c.tableId

\* a syncTable call has read its table, the table was deleted before the call's
\* transaction, and another table still has column records
C9_Witness ==
  /\ syncing # NoSync
  /\ \A t \in gen_table : t.id # syncing.id
  /\ gen_table_column # {}

\* C10: tableName is unique among the table records: an importTable call that names a
\* table which already has a table record fails with a Conflict failure and creates no
\* further table record.
C10_DuplicateImportConflicts ==
  [][\A tableNames \in ImportRequests :
       (ImportTable(tableNames, FALSE, 0) /\ \E t \in gen_table : t.tableName \in tableNames)
         => /\ last'.outcome = "Conflict"
            /\ gen_table' = gen_table
            /\ \A a \in gen_table' : \A b \in gen_table' :
                 a.tableName = b.tableName => a.id = b.id]_vars

\* the place of the column named nm in the live table of the table record id (0: none)
LivePosition(tables, schema, id, nm) ==
  LET live == UNION {{i \in 1..Len(schema[t.tableName]) :
                        schema[t.tableName][i].column_name = nm} :
                       t \in {r \in tables : r.id = id /\ r.tableName \in DOMAIN schema}}
  IN IF live = {} THEN 0 ELSE CHOOSE i \in live : TRUE

\* the column records of table id have pairwise different sort values, and sort orders
\* them as their columns are ordered in the live table
SortFollowsLive(tables, columns, schema, id) ==
  \A c \in ColumnsOf(columns, id) : \A d \in ColumnsOf(columns, id) :
    /\ c.sort = d.sort => c = d
    /\ (LivePosition(tables, schema, id, c.columnName)
          < LivePosition(tables, schema, id, d.columnName)) => c.sort < d.sort

\* C11: after every successful importTable and every successful syncTable(id), also a
\* sync after live columns were added or dropped, the column records of each table just
\* imported or synced have pairwise different sort values, and ordering them by sort
\* orders them as their columns are ordered in the live table.
C11_SortFollowsLiveOrder ==
  [][/\ (last'.op = "importTable" /\ last'.outcome = "ok")
          => \A t \in gen_table' \ gen_table :
               SortFollowsLive(gen_table', gen_table_column', information_schema, t.id)
     /\ \A id \in 1..MaxTableId :
          (SyncTable(id, 0) /\ last'.outcome = "ok")
            => SortFollowsLive(gen_table, gen_table_column', information_schema, id)]_vars

\* C17: an importTable call none of whose names resolves to a live table fails with the
\* not-found failure, which is neither the catalog failure nor the transaction failure,
\* and creates no record.
C17_ImportOfUnknownIsNotFound ==
  [][\A tableNames \in ImportRequests :
       (/\ ImportTable(tableNames, FALSE, 0)
        /\ getDbTablesQueryByNames(information_schema, tableNames) = <<>>)
         => /\ last'.outcome = ImportNotExist
            /\ last'.outcome \notin {"ok", ImportFindErr, ImportTxErr}
            /\ gen_table' = gen_table
            /\ gen_table_column' = gen_table_column
            /\ nextTableId' = nextTableId]_vars

\* an importTable call for a name that is no live table has failed, with other tables
\* imported before it
C17_Witness ==
  /\ last.op = "importTable"
  /\ last.outcome = ImportNotExist
  /\ last.effect = "none"
  /\ gen_table # {}

\* the failure syncTable hands to its caller for an id that has no table record
SyncNotFound(db, schema) == syncTable(db, SyncRead(db.tables, db.columns, schema, 0), 0).outcome

\* C18: syncTable(id) on a table record that has no column record fails with a failure
\* that is neither the one for a missing table record nor the one for a failed
\* transaction, and modifies nothing.
C18_SyncWithoutColumnsIsInvalidState ==
  [][\A id \in 1..MaxTableId :
       (/\ SyncTable(id, 0)
        /\ \E t \in gen_table : t.id = id
        /\ ColumnsOf(gen_table_column, id) = {})
         => /\ last'.outcome \notin {"ok", SyncNotFound(Db, information_schema), SyncTxErr}
            /\ gen_table' = gen_table
            /\ gen_table_column' = gen_table_column]_vars

\* C19: every column record named create_time, update_time or delete_time has the
\* logical type date and the widget datetime, whatever the SQL type of its column,
\* character and text types included.
C19_TimeNamedColumnIsDate ==
  \A c \in gen_table_column :
    c.columnName \in {"create_time", "update_time", "delete_time"}
      => (c.javaType = typeDate /\ c.htmlType = htmlDatetime)

\* C20: every column record whose base type is varchar has, whatever its name, the
\* widget input when its declared length is below 500 and textarea when it is 500 or
\* more.
C20_VarcharWidgetByLength ==
  \A c \in gen_table_column :
    c.columnType = "varchar"
      => c.htmlType = (IF c.columnLength < 500 THEN htmlInput ELSE htmlTextarea)

\* the element set of a sequence
Range(seq) == {seq[i] : i \in 1..Len(seq)}

\* the table names dbTables returns over all pages for the two filters and a page size
ListedOverPages(tableName, tableComment, pageSize) ==
  UNION {{row.tableName :
            row \in Range(dbTables(gen_table, information_schema,
                                   [pageNo |-> pageNo, pageSize |-> pageSize,
                                    tableName |-> tableName,
                                    tableComment |-> tableComment]).lists)} :
           pageNo \in PageNos}

\* the live tables that match the two filters
MatchingLive(tableName, tableComment) ==
  {t \in DOMAIN information_schema :
     LikeContains(t, tableName) /\ LikeContains(TableComment(t), tableComment)}

\* the tables of the generator itself and the tables with the scheduler prefix
GeneratorTables == {"la_gen_table", "la_gen_table_column"}
SchedulerTables == {t \in DOMAIN information_schema : startsWith(toLowerCase(t), "qrtz_")}

\* C16: for every name filter, comment filter and page size, the tables dbTables returns
\* over all pages are live tables matching the filters, none of them a table of the
\* generator itself (la_gen_table, la_gen_table_column) or a scheduler-prefixed table;
\* every other matching live table that is not imported yet is among them; and the
\* total reported is the number of tables returned.
C16_DbTablesListsImportable ==
  \A tableName \in NameFilters, tableComment \in CommentFilters, pageSize \in PageSizes :
    /\ ListedOverPages(tableName, tableComment, pageSize)
         \subseteq MatchingLive(tableName, tableComment)
    /\ ListedOverPages(tableName, tableComment, pageSize)
         \cap (GeneratorTables \cup SchedulerTables) = {}
    /\ (MatchingLive(tableName, tableComment)
          \ (GeneratorTables \cup SchedulerTables \cup {r.tableName : r \in gen_table}))
         \subseteq ListedOverPages(tableName, tableComment, pageSize)
    /\ dbTables(gen_table, information_schema,
                [pageNo |-> "1", pageSize |-> pageSize, tableName |-> tableName,
                 tableComment |-> tableComment]).count
         = Cardinality(ListedOverPages(tableName, tableComment, pageSize))

\* the templates of flat mode
FlatTemplates == getTemplatePaths(genConstants.tplCrud[2])

\* the entries of a map as a set of pairs
Entries(map) == {<<k, map[k]>> : k \in DOMAIN map}

\* the table record downloadCode packages for tableName
LatestTable(tables, tableName) ==
  CHOOSE t \in tables : /\ t.tableName = tableName
                        /\ \A u \in tables : u.tableName = tableName => u.id <= t.id

\* every rendered file of the table tableName at its mapped path
RenderedFiles(tables, tableName) ==
  Entries(getFilePaths([tplPath \in getTemplatePaths(TableAttr(LatestTable(tables, tableName),
                                                                "genTpl")) |->
                          render(tplPath, LatestTable(tables, tableName))],
                       LatestTable(tables, tableName).moduleName))

\* C12: a download request for two or more tables, all of them imported, is answered
\* with one archive that holds, for each of the tables, every rendered file of that table
\* at its mapped path: the union of the file sets.
C12_DownloadHoldsEveryTable ==
  [][\A caller \in Callers :
       (/\ DownloadStep(caller)
        /\ downloads'[caller].pc = "answered"
        /\ Len(downloads[caller].tables) >= 2
        /\ \A i \in 1..Len(downloads[caller].tables) :
             \E t \in gen_table : t.tableName = downloads[caller].tables[i])
         => /\ downloads'[caller].response.status = 200
            /\ Entries(downloads'[caller].response.body.files)
                 = UNION {RenderedFiles(gen_table, downloads[caller].tables[i]) :
                            i \in 1..Len(downloads[caller].tables)}]_vars

\* C13: previewCode(id) for a table record in flat mode (no subTableName, no subTableFk)
\* succeeds and returns a map with exactly one entry for each template of flat mode,
\* under the template's name without ".tpl".
C13_PreviewOfFlatTableSucceeds ==
  [][\A id \in 1..MaxTableId :
       (/\ PreviewCode(id)
        /\ \E t \in gen_table : /\ t.id = id
                                 /\ TableAttr(t, "subTableName") = ""
                                 /\ TableAttr(t, "subTableFk") = "")
         => /\ last'.outcome = "ok"
            /\ DOMAIN last'.data = {replace(tplPath, ".tpl", "") : tplPath \in FlatTemplates}
            /\ \A tplPath \in FlatTemplates :
                 \E t \in gen_table :
                   t.id = id /\ last'.data[replace(tplPath, ".tpl", "")] = render(tplPath, t)]_vars

FlatTableNames ==
  {t.tableName : t \in gen_table} \ {t.tableName : t \in {u \in gen_table :
                                                             TableAttr(u, "subTableFk") # ""}}

\* the request of caller a for the table ta and the request of caller b for the table tb,
\* run from the rows and the file as they are in this order: a packages, b packages, the
\* controller answers a
Overlapped(ta, tb) ==
  LET aPacked == downloadStep(gen_table, information_schema, zipFile,
                              Requested(<<ta>>, {}), "a")
      bPacked == downloadStep(gen_table, information_schema, aPacked.zip,
                              Requested(<<tb>>, {}), "b")
  IN downloadStep(gen_table, information_schema, bPacked.zip, aPacked.req, "a").req

\* C15: two download requests for different imported flat tables interfere when they overlap:
\* in the interleaving where the second request packages its table after the first has
\* packaged and before the first is answered, the first caller is answered with the
\* archive the second request wrote.
C15_OverlappingDownloadsInterfere ==
  \A ta \in FlatTableNames, tb \in FlatTableNames :
    ta # tb => /\ Overlapped(ta, tb).pc = "answered"
               /\ Overlapped(ta, tb).response.status = 200
               /\ Overlapped(ta, tb).response.body.by = "b"

\* the live column that the column record c was classified from, in the live table of
\* its table record
LiveColumnOf(c) ==
  LET name == (CHOOSE t \in gen_table : t.id = c.tableId).tableName
  IN information_schema[name][CHOOSE i \in 1..Len(information_schema[name]) :
                                information_schema[name][i].column_name = c.columnName]

\* C21: every column record whose base type is in the numeric family and whose name is
\* not a temporal name has the logical type float when the declared type of its column
\* carries a decimal scale (decimal(10,2)), and int otherwise.
C21_NumericWithScaleIsFloat ==
  \A c \in gen_table_column :
    (contains(columnTypeNumber, c.columnType) /\ ~contains(columnTimeName, c.columnName))
      => c.javaType = (IF includes(LiveColumnOf(c).column_type, ",")
                       THEN typeFloat ELSE typeInt)

\* C22: the four visibility flags of every column record follow the exclusion sets:
\* insertable exactly when the name is outside the not-add set, editable exactly when it
\* is outside the not-edit set, listable exactly when it is outside the not-list set and
\* the column is no primary key, queryable exactly when it is outside the not-query set
\* and the column is no primary key (so a non-key column order_no is listable and
\* queryable).
C22_FlagsFollowExclusionSets ==
  \A c \in gen_table_column :
    /\ (c.isInsert = 1) <=> ~contains(columnNameNotAdd, c.columnName)
    /\ (c.isEdit = 1) <=> ~contains(columnNameNotEdit, c.columnName)
    /\ (c.isList = 1) <=> (~contains(columnNameNotList, c.columnName) /\ c.isPk = 0)
    /\ (c.isQuery = 1) <=> (~contains(columnNameNotQuery, c.columnName) /\ c.isPk = 0)

Reclassified(p) ==
  LET name == (CHOOSE t \in gen_table : t.id = p.tableId).tableName
      columns == getDbTableColumnsQueryByName(information_schema, name)
  IN initColumn(p.tableId, columns[CHOOSE i \in 1..Len(columns) :
                                     columns[i].columnName = Str(p.columnName)])

\* C24: after a successful syncTable, every column record whose column is still in the
\* live table and which the classifier does not make list-visible has the dictType and
\* the queryType it had before the call.
C24_SyncKeepsDictAndQuery ==
  [][(last'.op = "syncTable" /\ last'.outcome = "ok")
       => \A p \in gen_table_column :
            (/\ p.columnName \in LiveNames(gen_table, information_schema, p.tableId)
             /\ Get(Reclassified(p), "isList") # Num(1))
              => \E c \in gen_table_column' :
                   /\ c.id = p.id
                   /\ c.dictType = p.dictType
                   /\ c.queryType = p.queryType]_vars

\* the only imported table was synced with a hand-set dictionary and query operator on a
\* column that is still live and that the classifier gives the equality operator
C24_Witness ==
  /\ last.op = "syncTable"
  /\ last.outcome = "ok"
  /\ Cardinality(gen_table) = 1
  /\ \E c \in gen_table_column :
       /\ c.dictType = "order_status"
       /\ c.queryType = "LIKE"
       /\ c.columnName \in LiveNames(gen_table, information_schema, c.tableId)
       /\ Get(Reclassified(c), "queryType") = Get(genConstants, "queryEq")
       /\ Get(Reclassified(c), "isList") # Num(1)

\* the fields of a column record that restate the declaration of its live column
StructuralFields == {"columnType", "columnLength", "isPk", "isIncrement", "sort"}

\* C25: after a successful syncTable(id), every column record of the table whose column
\* is in the live table has the columnType, columnLength, isPk, isIncrement and sort the
\* classifier derives from the live column as it is now (a column redeclared from
\* varchar(32) to int(11) or varchar(64) is stored with its new type and length).
C25_SyncRefreshesStructure ==
  [][\A id \in 1..MaxTableId :
       (SyncTable(id, 0) /\ last'.outcome = "ok")
         => \A c \in ColumnsOf(gen_table_column', id) :
              c.columnName \in LiveNames(gen_table, information_schema, id)
                => \A a \in StructuralFields :
                     c[a] = NewColumnRow(Reclassified(c), c.id)[a]]_vars

\* C26: the classifier changes the requiredness of a column only by forcing it to false
\* for a name in the not-edit set: every column record of an editable column has the
\* isRequired the catalog reports for its live column (declared NOT NULL and no primary
\* key), so a nullable editable column is not required and a NOT NULL one is.
C26_EditableKeepsCatalogRequired ==
  \A c \in gen_table_column :
    ~contains(columnNameNotEdit, c.columnName)
      => c.isRequired = (IF /\ LiveColumnOf(c).is_nullable = "NO"
                            /\ LiveColumnOf(c).column_key # "PRI"
                         THEN 1 ELSE 0)

\* C27: the query operator of a column record is the pattern match exactly when the
\* lower-cased name of the column ends with name, title or mobile (sub_title and
\* user_mobile included) and the equality otherwise, whatever the type and the widget.
C27_LikeByNameSuffix ==
  \A c \in gen_table_column :
    c.queryType =
      (IF \/ endsWith(toLowerCase(c.columnName), "name")
          \/ endsWith(toLowerCase(c.columnName), "title")
          \/ endsWith(toLowerCase(c.columnName), "mobile")
       THEN genConstants.queryLike[2] ELSE genConstants.queryEq[2])

\* C28: the by-names lookup applies the exclusions of the listing: every table name it
\* returns for a list of names is a name dbTables without filters returns on one of its
\* pages, so a table that is imported already is not resolved for another import.
C28_ByNamesWithinListing ==
  \A tableNames \in ImportRequests, pageSize \in PageSizes :
    {row.tableName : row \in Range(getDbTablesQueryByNames(information_schema, tableNames))}
      \subseteq ListedOverPages("", "", pageSize)

\* two syncTable(id) calls that overlap: both read the column records as they are now,
\* then the one runs its transaction and after it the other
SyncOverlapped(id) ==
  syncTable(syncTable(Db, SyncRead(gen_table, gen_table_column, information_schema, id),
                      0).db,
            SyncRead(gen_table, gen_table_column, information_schema, id), 0).db.columns

\* two syncTable(id) calls one after the other, the second reading what the first left
SyncSerial(id) ==
  SyncOnce(SyncOnce(Db, information_schema, id).db, information_schema, id).db.columns

\* C29: syncTable calls on one table are not serialized: when the live table of an
\* imported table has a column without a column record, two overlapping syncTable(id)
\* calls, each reading the column records before the other commits, leave column records
\* that no serial execution of the two leaves: two records of the same columnName for
\* the new column.
C29_OverlappingSyncsDiverge ==
  \A id \in 1..MaxTableId :
    (Imported(id) /\ LiveOnly(id) # {})
      => /\ SyncOverlapped(id) # SyncSerial(id)
         /\ \E c, d \in ColumnsOf(SyncOverlapped(id), id) :
              /\ c.id # d.id
              /\ c.columnName = d.columnName
              /\ c.columnName \in LiveOnly(id)

\* C30: for a tree-mode table record with the sub-table name S and a sub-table foreign
\* key, the sub-table context of the rendering is built from the table S: its columns are
\* the live columns of S and its key column is the primary key of S, not those of the
\* main table.
C30_SubTableContextFromSubTable ==
  \A t \in gen_table :
    TableAttr(t, "subTableFk") # ""
      => /\ ~getSubTableInfo(gen_table, information_schema, t).thrown
         /\ getSubTableInfo(gen_table, information_schema, t).value.cols
              = getDbTableColumnsQueryByName(information_schema, TableAttr(t, "subTableName"))
         /\ \E c \in Range(information_schema[TableAttr(t, "subTableName")]) :
              /\ c.column_key = "PRI"
              /\ getSubTableInfo(gen_table, information_schema, t).value.pkCol.columnName
                   = Str(c.column_name)

====
